---- MODULE Spec2Model ----
(***************************************************************************)
(* A model of the two command-line programs of YT_Downloader:              *)
(*   - youtube_playlist_downloader.py: download_playlist, download_videos  *)
(*     (a ThreadPoolExecutor of download_video tasks with bounded retry);  *)
(*   - youtube_video_downloader.py: download_youtube_content.              *)
(* The yt_dlp library is the environment: every call of extract_info and   *)
(* of download ends in one of the outcomes the library can produce.        *)
(***************************************************************************)
EXTENDS Integers, Sequences, FiniteSets, TLC

(* ------------------------------ bounds --------------------------------- *)

\* longest entries list a playlist's metadata holds
MaxEntries == 3

\* largest config.max_retries tried (0 .. MaxRetries)
MaxRetries == 2

\* largest config.max_workers tried (1 .. MaxWorkers)
MaxWorkers == 2

(* ------------------------- Python values ------------------------------- *)

\* A Python value that is None or a dict: the keys present, and the values of
\* the keys this program reads.
Value(type, keys, id, title, entries) ==
    [type |-> type, keys |-> keys, id |-> id, title |-> title, entries |-> entries]

None == Value("None", {}, "", <<>>, <<>>)

Dict(keys, id, title, entries) == Value("dict", keys, id, title, entries)

\* bool(v): None and the empty dict are falsy
Truthy(v) == v.type = "dict" /\ v.keys # {}

\* k in v
Has(v, k) == k \in v.keys

\* v.get("title", default)
GetTitle(v, default) == IF Has(v, "title") THEN v.title ELSE default

(* ---------------------- yt_dlp exception classes ----------------------- *)

NoException == "none"

\* isinstance(e, cls): yt_dlp.DownloadError and yt_dlp.utils.ExtractorError
\* derive from yt_dlp.utils.YoutubeDLError, the library's general error.
IsInstance(e, cls) ==
    \/ e = cls
    \/ cls = "YoutubeDLError" /\ e \in {"DownloadError", "ExtractorError"}

\* the errors of the library interface, as the except clauses name them
LibraryErrors == {"ExtractorError", "DownloadError", "YoutubeDLError"}

(* --------------------------- pure functions ---------------------------- *)

\* str.isalnum() of one character, over the characters the titles use
IsAlnum(c) == c \in {"T", "P", "a", "7"}

\* create_safe_filename: every character that is not alphanumeric, a space,
\* a hyphen or an underscore becomes an underscore
create_safe_filename(filename) ==
    [i \in 1..Len(filename) |->
        IF IsAlnum(filename[i]) \/ filename[i] \in {" ", "-", "_"}
        THEN filename[i] ELSE "_"]

\* os.path.join(a, b) for a relative b: the components, in order
PathJoin(a, b) == <<a, b>>

\* an optional regex group: drop the leading token when it is one of toks
SkipOptional(s, toks) == IF s # <<>> /\ Head(s) \in toks THEN Tail(s) ELSE s

\* validate_url: ^(https?://)?(www\.)?(youtube\.com|youtu\.be)/.+ matched
\* from the start of the url (a sequence of tokens)
validate_url(url) ==
    LET rest == SkipOptional(SkipOptional(url, {"http://", "https://"}), {"www."})
    IN  /\ Len(rest) >= 3
        /\ rest[1] \in {"youtube.com", "youtu.be"}
        /\ rest[2] = "/"
        /\ rest[3] # ""

\* the format selector download_youtube_content builds from the quality hint
FormatSelector(quality) ==
    IF quality # "best" THEN <<"bestvideo[height<=", quality, "]+bestaudio/best">>
    ELSE <<"best">>

(* ------------------------------ inputs --------------------------------- *)

Programs == {"playlist", "video"}

Titles == { <<"T", "/", "P">>, <<"a", " ", "-", "_", ":", "7">> }

\* the entries of a flat playlist extraction: None, {}, a video with an id,
\* and a video without one
EntryValues ==
    { None,
      Dict({}, "", <<>>, <<>>),
      Dict({"id"}, "v", <<>>, <<>>),
      Dict({"title"}, "", <<"T">>, <<>>) }

RECURSIVE SeqsUpTo(_, _)
SeqsUpTo(S, n) ==
    IF n = 0 THEN {<<>>}
    ELSE LET shorter == SeqsUpTo(S, n - 1)
         IN  shorter \cup {Append(s, x) : s \in shorter, x \in S}

EntryLists == SeqsUpTo(EntryValues, MaxEntries)

\* what extract_info can return to get_playlist_info: nothing, a dict without
\* entries, an untitled playlist with any entries, a titled one with one entry
PlaylistMetadata ==
    {None, Dict({}, "", <<>>, <<>>)}
    \cup {Dict({"title"}, "", t, <<>>) : t \in Titles}
    \cup {Dict({"entries"}, "", <<>>, es) : es \in EntryLists}
    \cup {Dict({"title", "entries"}, "", t, es) : t \in Titles, es \in SeqsUpTo(EntryValues, 1)}

\* what extract_info can return to get_video_info
VideoMetadata ==
    {None, Dict({}, "", <<>>, <<>>), Dict({"id"}, "v", <<>>, <<>>)}
    \cup {Dict({"id", "title"}, "v", t, <<>>) : t \in Titles}
    \cup {Dict({"id", "entries"}, "v", <<>>, <<None>>)}
    \cup {Dict({"id", "title", "entries"}, "v", t, <<None>>) : t \in Titles}

Urls ==
    { <<"https://", "www.", "youtube.com", "/", "watch?v=ID">>,
      <<"https://", "youtu.be", "/", "ID">>,
      <<"http://", "www.", "youtube.com", "/", "playlist?list=ID">>,
      <<"youtu.be", "/", "ID">>,
      <<"https://", "www.", "youtube.com">>,
      <<"https://", "youtube.com", "/">>,
      <<"ftp://", "youtube.com", "/", "ID">>,
      <<"https://", "example.com", "/", "ID">> }

Qualities == {"best", "720"}

\* an outcome of a library call: it returns a value or raises an exception
Returns(v) == [kind |-> "return", value |-> v, error |-> NoException]

Raises(e) == [kind |-> "raise", value |-> None, error |-> e]

\* extract_info returns metadata or raises a library error or something else
ExtractOutcomes(metadata) ==
    {Returns(m) : m \in metadata} \cup {Raises(e) : e \in LibraryErrors \cup {"OSError"}}

\* download returns, or raises the download error or something else
DownloadOutcomes ==
    {Returns(None)}
    \cup {Raises(e) : e \in {"DownloadError", "ExtractorError", "YoutubeDLError", "OSError", "ValueError"}}

\* the outcomes of download inside a worker: it returns, raises the download
\* error, or raises something download_video does not expect
WorkerDownloadOutcomes == {Returns(None), Raises("DownloadError"), Raises("OSError")}

(* ------------------------------- state --------------------------------- *)

VARIABLES
    program,        \* which of the two programs runs
    pc,             \* where the main thread is
    log,            \* what the main thread has logged, in order
    exc,            \* the exception that left the program's top function
    max_retries,    \* config.max_retries
    max_workers,    \* config.max_workers
    extract_calls,  \* calls of extract_info so far
    playlist_info,  \* download_playlist: the result of get_playlist_info
    dirs,           \* the directories created on the filesystem
    videos,         \* download_videos: its videos argument
    output_path,    \* download_videos: its output_path argument
    next,           \* download_videos: index of the next video of the comprehension
    futures,        \* download_videos: the futures, in submission order
    pending,        \* the exception future.result() re-raised, leaving the with block
    input_url,      \* download_youtube_content: input_url
    quality,        \* download_youtube_content: quality
    info,           \* download_youtube_content: the result of get_video_info
    download_calls  \* download_youtube_content: the arguments of each download call

vars ==
    <<program, pc, log, exc, max_retries, max_workers, extract_calls, playlist_info,
      dirs, videos, output_path, next, futures, pending, input_url, quality, info,
      download_calls>>

configVars == <<program, max_retries, max_workers>>

playlistVars == <<playlist_info, dirs, videos, output_path, next, futures, pending>>

videoVars == <<input_url, quality, info, download_calls>>

\* one line of the main thread's log
Line(level, msg, arg) == [level |-> level, msg |-> msg, arg |-> arg]

StorageLocation == <<"storage">>

\* DownloadConfig.__init__ sets the defaults max_retries = 5 and
\* max_workers = 4 on the module-level config object, which the retry loop
\* and the pool read when they run; the model runs the programs under every
\* configuration within MaxRetries and MaxWorkers
Init ==
    /\ program \in Programs
    /\ pc = "start"
    /\ log = <<>>
    /\ exc = NoException
    /\ max_retries \in 0..MaxRetries
    /\ max_workers \in 1..MaxWorkers
    /\ extract_calls = 0
    /\ playlist_info = None
    /\ dirs = {}
    /\ videos = <<>>
    /\ output_path = <<>>
    /\ next = 1
    /\ futures = <<>>
    /\ pending = NoException
    /\ input_url \in IF program = "video" THEN Urls ELSE {<<>>}
    /\ quality \in IF program = "video" THEN Qualities ELSE {"best"}
    /\ info = None
    /\ download_calls = <<>>

(* ---------------------- youtube_playlist_downloader -------------------- *)

\* the result of a metadata fetcher: what it returns, what it logs, and the
\* exception that leaves it
Fetched(ret, lines, raised) == [ret |-> ret, log |-> lines, raised |-> raised]

\* get_playlist_info: extract_info's result, or None after logging an
\* ExtractorError or any other YoutubeDLError
get_playlist_info(outcome) ==
    IF outcome.kind = "return" THEN Fetched(outcome.value, <<>>, NoException)
    ELSE IF IsInstance(outcome.error, "ExtractorError")
    THEN Fetched(None, <<Line("error", "Failed to extract playlist information", <<outcome.error>>)>>, NoException)
    ELSE IF IsInstance(outcome.error, "YoutubeDLError")
    THEN Fetched(None, <<Line("error", "A YouTube-DL error occurred", <<outcome.error>>)>>, NoException)
    ELSE Fetched(None, <<>>, outcome.error)

\* download_playlist, line 127: fetch the playlist's metadata
PlaylistFetch ==
    /\ program = "playlist" /\ pc = "start"
    /\ \E outcome \in ExtractOutcomes(PlaylistMetadata) :
        LET r == get_playlist_info(outcome)
        IN  /\ extract_calls' = extract_calls + 1
            /\ log' = log \o r.log
            /\ playlist_info' = r.ret
            /\ exc' = r.raised
            /\ pc' = IF r.raised # NoException THEN "raised" ELSE "check"
    /\ UNCHANGED <<configVars, dirs, videos, output_path, next, futures, pending, videoVars>>

\* a download_playlist without the check for the entries key
AbortReasonNoEntriesCheck(pinfo) ==
    IF ~Truthy(pinfo) THEN "Failed to retrieve playlist information." ELSE "none"

\* download_playlist, lines 128-134: which check, if any, aborts the flow
AbortReason(pinfo) ==
    IF ~Truthy(pinfo) THEN "Failed to retrieve playlist information."
    ELSE IF ~Has(pinfo, "entries") THEN "No videos found in the playlist."
    ELSE "none"

\* download_playlist, lines 128-134: abort on absent metadata or no entries
PlaylistCheck ==
    /\ program = "playlist" /\ pc = "check"
    /\ IF AbortReason(playlist_info) # "none"
       THEN /\ log' = Append(log, Line("error", AbortReason(playlist_info), <<>>))
            /\ pc' = "returned"
       ELSE /\ log' = log
            /\ pc' = "makedirs"
    /\ UNCHANGED <<configVars, exc, extract_calls, playlistVars, videoVars>>

\* download_playlist, lines 136-138: the playlist's directory
PlaylistPath(pinfo, storage_location) ==
    PathJoin(storage_location, create_safe_filename(GetTitle(pinfo, <<"Untitled Playlist">>)))

\* download_playlist, lines 140-147: create the directory, or log the OSError
\* and return; then call download_videos
PlaylistMakeDirs ==
    /\ program = "playlist" /\ pc = "makedirs"
    /\ LET playlist_path == PlaylistPath(playlist_info, StorageLocation)
       IN  \E made \in BOOLEAN :
            IF made
            THEN /\ dirs' = dirs \cup {playlist_path}
                 /\ log' = Append(log, Line("info", "Downloading playlist", GetTitle(playlist_info, <<"Untitled Playlist">>)))
                 /\ videos' = playlist_info.entries
                 /\ output_path' = playlist_path
                 /\ pc' = "submit"
            ELSE /\ log' = Append(log, Line("error", "Failed to create directory", <<"OSError">>))
                 /\ pc' = "returned"
                 /\ UNCHANGED <<dirs, videos, output_path>>
    /\ UNCHANGED <<configVars, exc, extract_calls, playlist_info, next, futures, pending, videoVars>>

(* ------------------------------ download_video ------------------------ *)

\* one line of a download_video invocation's log
TaskLine(level, msg, n, title) == [level |-> level, msg |-> msg, n |-> n, title |-> title]

\* the future executor.submit returns for videos[i]: download_video has not
\* started; calls lists how each of its download calls ended, in order
NewFuture(i) ==
    [video |-> i, state |-> "pending", attempt |-> 0, calls |-> <<>>, result |-> "none",
     exception |-> NoException, log |-> <<>>, inspected |-> FALSE]

\* a retry loop that runs one pass too many
MoreAttemptsOffByOne(attempt) == attempt <= max_retries

\* download_video, line 69: range(config.max_retries) has another attempt
MoreAttempts(attempt) == attempt < max_retries

\* an except clause that catches every exception
CaughtAnything(e) == TRUE

\* an except clause that catches nothing
CaughtNothing(e) == FALSE

\* download_video, line 75: the except clause catches the download error only
Caught(e) == IsInstance(e, "DownloadError")

\* a retry loop without the return after a download that succeeded
download_video_attempt_no_return(fut, video_info, outcome) ==
    IF ~Has(video_info, "id")
    THEN [fut EXCEPT !.state = "finished", !.exception = "KeyError"]
    ELSE IF outcome.kind = "return"
    THEN [fut EXCEPT !.calls = Append(@, "return"), !.attempt = @ + 1]
    ELSE IF IsInstance(outcome.error, "DownloadError")
    THEN [fut EXCEPT !.calls = Append(@, outcome.error), !.attempt = @ + 1,
                     !.log = Append(@, [level |-> "warning", msg |-> "Attempt failed",
                                        n |-> fut.attempt + 1,
                                        title |-> GetTitle(video_info, <<"Unknown video">>)])]
    ELSE [fut EXCEPT !.state = "finished", !.calls = Append(@, outcome.error),
                     !.exception = outcome.error]

\* download_video, lines 70-81: one pass of the retry loop. video_info['id']
\* raises KeyError before the call when the entry has no id; a download that
\* returns ends the invocation with True; a caught error is logged with the
\* attempt number and the loop goes on; any other exception leaves the function
download_video_attempt(fut, video_info, outcome) ==
    IF ~Has(video_info, "id")
    THEN [fut EXCEPT !.state = "finished", !.exception = "KeyError"]
    ELSE IF outcome.kind = "return"
    THEN [fut EXCEPT !.state = "finished", !.calls = Append(@, "return"), !.result = "True"]
    ELSE IF Caught(outcome.error)
    THEN [fut EXCEPT !.calls = Append(@, outcome.error), !.attempt = @ + 1,
                     !.log = Append(@, TaskLine("warning", "Attempt failed", fut.attempt + 1,
                                                GetTitle(video_info, <<"Unknown video">>)))]
    ELSE [fut EXCEPT !.state = "finished", !.calls = Append(@, outcome.error),
                     !.exception = outcome.error]

\* download_video, lines 83-88: the loop is over; log the exhaustion, return False
download_video_exhausted(fut, video_info) ==
    [fut EXCEPT !.state = "finished", !.result = "False",
                !.log = Append(@, TaskLine("error", "Failed to download after attempts", max_retries,
                                           GetTitle(video_info, <<"Unknown video">>)))]

(* ------------------------------ download_videos ------------------------ *)

InDownloadVideos == program = "playlist" /\ pc \in {"submit", "collect", "shutdown"}

Running == {f \in 1..Len(futures) : futures[f].state = "running"}

Unfinished == {f \in 1..Len(futures) : futures[f].state # "finished"}

\* a comprehension without its filter
SubmittedUnfiltered(video) == TRUE

\* download_videos, line 163: the comprehension's filter, `if video`
Submitted(video) == Truthy(video)

\* a pool that starts a thread for every task
WorkerAlwaysFree == TRUE

\* download_videos, line 159: the pool runs at most max_workers tasks at once
WorkerFree == Cardinality(Running) < max_workers

\* download_videos, lines 160-164: one step of the comprehension: submit
\* download_video for the next video unless it is falsy
Submit ==
    /\ program = "playlist" /\ pc = "submit"
    /\ next <= Len(videos)
    /\ futures' = IF Submitted(videos[next]) THEN Append(futures, NewFuture(next)) ELSE futures
    /\ next' = next + 1
    /\ UNCHANGED <<configVars, pc, log, exc, extract_calls, playlist_info, dirs, videos,
                   output_path, pending, videoVars>>

\* download_videos, lines 164-166: the comprehension is over, collection begins
SubmitDone ==
    /\ program = "playlist" /\ pc = "submit"
    /\ next > Len(videos)
    /\ pc' = "collect"
    /\ UNCHANGED <<configVars, log, exc, extract_calls, playlistVars, videoVars>>

\* a worker thread takes the oldest queued task (the pool's queue is FIFO)
\* when fewer than max_workers tasks run
StartTask(f) ==
    /\ InDownloadVideos
    /\ futures[f].state = "pending"
    /\ \A g \in 1..(f - 1) : futures[g].state # "pending"
    /\ WorkerFree
    /\ futures' = [futures EXCEPT ![f].state = "running"]
    /\ UNCHANGED <<configVars, pc, log, exc, extract_calls, playlist_info, dirs, videos,
                   output_path, next, pending, videoVars>>

\* a worker runs one pass of download_video's retry loop
Attempt(f) ==
    /\ InDownloadVideos
    /\ futures[f].state = "running"
    /\ MoreAttempts(futures[f].attempt)
    /\ \E outcome \in WorkerDownloadOutcomes :
        futures' = [futures EXCEPT
                      ![f] = download_video_attempt(@, videos[futures[f].video], outcome)]
    /\ UNCHANGED <<configVars, pc, log, exc, extract_calls, playlist_info, dirs, videos,
                   output_path, next, pending, videoVars>>

\* a worker leaves download_video's retry loop with every attempt failed
Exhausted(f) ==
    /\ InDownloadVideos
    /\ futures[f].state = "running"
    /\ ~MoreAttempts(futures[f].attempt)
    /\ futures' = [futures EXCEPT
                     ![f] = download_video_exhausted(@, videos[futures[f].video])]
    /\ UNCHANGED <<configVars, pc, log, exc, extract_calls, playlist_info, dirs, videos,
                   output_path, next, pending, videoVars>>

\* download_videos, lines 166-172: as_completed yields a finished future not
\* yet yielded and future.result() re-raises its exception, if it has one
InspectResult(f) ==
    /\ program = "playlist" /\ pc = "collect"
    /\ futures[f].state = "finished" /\ ~futures[f].inspected
    /\ futures' = [futures EXCEPT ![f].inspected = TRUE]
    /\ pending' = futures[f].exception
    /\ pc' = IF futures[f].exception # NoException THEN "shutdown" ELSE "collect"
    /\ UNCHANGED <<configVars, log, exc, extract_calls, playlist_info, dirs, videos,
                   output_path, next, videoVars>>

\* download_videos, line 166: as_completed has yielded every future
CollectDone ==
    /\ program = "playlist" /\ pc = "collect"
    /\ \A f \in 1..Len(futures) : futures[f].inspected
    /\ pc' = "shutdown"
    /\ UNCHANGED <<configVars, log, exc, extract_calls, playlistVars, videoVars>>

\* a shutdown that does not wait for the tasks
ShutdownNoWait == TRUE

\* download_videos, line 159: leaving the with block is shutdown(wait=True),
\* which returns when every submitted task has finished
ShutdownReturns == Unfinished = {}

\* download_videos returns or re-raises; download_playlist, line 148, logs
\* the completion after a normal return
ExecutorExit ==
    /\ program = "playlist" /\ pc = "shutdown"
    /\ ShutdownReturns
    /\ IF pending = NoException
       THEN /\ log' = Append(log, Line("info", "Playlist download complete!", <<>>))
            /\ pc' = "returned"
            /\ exc' = exc
       ELSE /\ log' = log
            /\ pc' = "raised"
            /\ exc' = pending
    /\ UNCHANGED <<configVars, extract_calls, playlistVars, videoVars>>

(* ----------------------- youtube_video_downloader ---------------------- *)

\* get_video_info: extract_info's result, or None after logging a
\* DownloadError or an ExtractorError
get_video_info(outcome) ==
    IF outcome.kind = "return" THEN Fetched(outcome.value, <<>>, NoException)
    ELSE IF IsInstance(outcome.error, "DownloadError") \/ IsInstance(outcome.error, "ExtractorError")
    THEN Fetched(None, <<Line("error", "Error retrieving video information", <<outcome.error>>)>>, NoException)
    ELSE Fetched(None, <<>>, outcome.error)

\* download_youtube_content, lines 70-72: an invalid URL is logged and ends the call
VideoValidate ==
    /\ program = "video" /\ pc = "start"
    /\ IF validate_url(input_url)
       THEN /\ pc' = "get_video_info"
            /\ log' = log
       ELSE /\ pc' = "returned"
            /\ log' = Append(log, Line("error", "Invalid YouTube URL provided", input_url))
    /\ UNCHANGED <<configVars, exc, extract_calls, playlistVars, videoVars>>

\* download_youtube_content, lines 74-76: fetch the metadata, return if absent
VideoFetch ==
    /\ program = "video" /\ pc = "get_video_info"
    /\ \E outcome \in ExtractOutcomes(VideoMetadata) :
        LET r == get_video_info(outcome)
        IN  /\ extract_calls' = extract_calls + 1
            /\ log' = log \o r.log
            /\ info' = r.ret
            /\ exc' = r.raised
            /\ pc' = IF r.raised # NoException THEN "raised"
                     ELSE IF ~Truthy(r.ret) THEN "returned"
                     ELSE "prepare"
    /\ UNCHANGED <<configVars, playlistVars, input_url, quality, download_calls>>

\* download_youtube_content, lines 78-79
ContentType(i) == IF Has(i, "entries") THEN <<"playlist">> ELSE <<"video">>

\* download_youtube_content, lines 78-92: info["title"] raises KeyError when
\* the metadata has no title; otherwise the preparation is logged
VideoPrepare ==
    /\ program = "video" /\ pc = "prepare"
    /\ IF Has(info, "title")
       THEN /\ log' = Append(log, Line("info", "Preparing to download", ContentType(info) \o info.title))
            /\ pc' = "download"
            /\ exc' = exc
       ELSE /\ log' = log
            /\ pc' = "raised"
            /\ exc' = "KeyError"
    /\ UNCHANGED <<configVars, extract_calls, playlistVars, videoVars>>

\* download_youtube_content, lines 98-103: the exceptions the download's try
\* statement catches and logs
DownloadCaught(e) ==
    IsInstance(e, "DownloadError") \/ IsInstance(e, "ExtractorError") \/ IsInstance(e, "OSError")

\* download_youtube_content, lines 98-103: the line logged for a caught exception
DownloadErrorLine(e) ==
    IF IsInstance(e, "DownloadError") THEN Line("error", "A download error occurred", <<e>>)
    ELSE IF IsInstance(e, "ExtractorError") THEN Line("error", "An extractor error occurred", <<e>>)
    ELSE Line("error", "An OS error occurred", <<e>>)

\* download_youtube_content, lines 82-96: a download call: the url, the
\* format selector of its options, and how it ended
DownloadCall(url, q, outcome) ==
    [url |-> url, format |-> FormatSelector(q),
     outcome |-> IF outcome.kind = "return" THEN "return" ELSE outcome.error]

\* download_youtube_content, lines 94-103: one download call on input_url;
\* completion is logged when it returns, a caught error is logged, and any
\* other exception leaves the function
VideoDownload ==
    /\ program = "video" /\ pc = "download"
    /\ \E outcome \in DownloadOutcomes :
        /\ download_calls' = Append(download_calls, DownloadCall(input_url, quality, outcome))
        /\ IF outcome.kind = "return"
           THEN /\ log' = Append(log, Line("info", "download complete!", ContentType(info)))
                /\ pc' = "returned"
                /\ exc' = exc
           ELSE IF DownloadCaught(outcome.error)
           THEN /\ log' = Append(log, DownloadErrorLine(outcome.error))
                /\ pc' = "returned"
                /\ exc' = exc
           ELSE /\ log' = log
                /\ pc' = "raised"
                /\ exc' = outcome.error
    /\ UNCHANGED <<configVars, extract_calls, playlistVars, input_url, quality, info>>

(* --------------------------- specifications ---------------------------- *)

MainStep ==
    \/ PlaylistFetch
    \/ PlaylistCheck
    \/ PlaylistMakeDirs
    \/ Submit
    \/ SubmitDone
    \/ \E f \in 1..Len(futures) : InspectResult(f)
    \/ CollectDone
    \/ ExecutorExit
    \/ VideoValidate
    \/ VideoFetch
    \/ VideoPrepare
    \/ VideoDownload

WorkerStep ==
    \/ \E f \in 1..Len(futures) : StartTask(f)
    \/ \E f \in 1..Len(futures) : Attempt(f)
    \/ \E f \in 1..Len(futures) : Exhausted(f)

Next == MainStep \/ WorkerStep

Spec == Init /\ [][Next]_vars

\* the main thread and the pool's worker threads keep running, and every
\* library call ends
FairSpec == Spec /\ WF_vars(MainStep) /\ WF_vars(WorkerStep)

(* ------------------------------- claims -------------------------------- *)

Futures == 1..Len(futures)

LastLine(lines) == lines[Len(lines)]

\* download_videos returned normally and download_playlist logged the completion
DownloadVideosReturned ==
    /\ program = "playlist" /\ pc = "returned"
    /\ log # <<>> /\ LastLine(log).msg = "Playlist download complete!"

\* download_videos re-raised a task's exception to its caller
DownloadVideosRaised == program = "playlist" /\ pc = "raised" /\ pending # NoException

\* the futures submitted for videos[i]
FuturesOf(i) == {f \in Futures : futures[f].video = i}

\* C1: download_videos submits download_video exactly once for each truthy
\* entry the comprehension has passed and never for a falsy one; when it
\* returns normally every invocation has run to its end, and neither the main
\* log nor any invocation's log holds a failure for a skipped entry.
C1_OncePerTruthyEntry ==
    program = "playlist" =>
        /\ \A i \in 1..Len(videos) :
              Cardinality(FuturesOf(i)) = IF i < next /\ Truthy(videos[i]) THEN 1 ELSE 0
        /\ \A f \in Futures : Truthy(videos[futures[f].video])
        /\ pc \in {"collect", "shutdown"} \/ DownloadVideosReturned \/ DownloadVideosRaised
              => next = Len(videos) + 1
        /\ DownloadVideosReturned =>
              /\ \A f \in Futures : futures[f].state = "finished" /\ futures[f].inspected
              /\ \A k \in 1..Len(log) : log[k].level # "error"

\* entries [A, None, B]-like: a falsy entry among three, two invocations, a normal return
C1_Witness ==
    /\ DownloadVideosReturned
    /\ Len(videos) = 3 /\ Len(futures) = 2
    /\ videos[2] = None
    /\ \A f \in Futures : futures[f].calls # <<>>

\* every call of this finished invocation failed with the download error
\* (the target has an id, so each attempt reached the call)
AllCallsFailed(f) ==
    /\ futures[f].state = "finished"
    /\ Has(videos[futures[f].video], "id")
    /\ \A k \in 1..Len(futures[f].calls) : futures[f].calls[k] = "DownloadError"

\* C2: no invocation makes more than max_retries download calls; the k-th
\* failed call is logged as attempt k; and an invocation all of whose calls
\* failed with the download error made exactly max_retries calls, logged the
\* exhaustion message naming max_retries last, returned False and raised nothing.
C2_ExhaustsAfterMaxRetries ==
    \A f \in Futures :
        LET fut == futures[f]
        IN  /\ Len(fut.calls) <= max_retries
            /\ \A k \in 1..Len(fut.calls) :
                  fut.calls[k] = "DownloadError" =>
                      /\ k <= Len(fut.log)
                      /\ fut.log[k].level = "warning" /\ fut.log[k].n = k
            /\ AllCallsFailed(f) =>
                  /\ Len(fut.calls) = max_retries
                  /\ fut.result = "False"
                  /\ fut.exception = NoException
                  /\ Len(fut.log) = max_retries + 1
                  /\ LastLine(fut.log).level = "error"
                  /\ LastLine(fut.log).n = max_retries

C2_Witness ==
    \E f \in Futures :
        /\ AllCallsFailed(f)
        /\ max_retries >= 2
        /\ futures[f].result = "False"

\* C3: a download call that returns is the invocation's last call: the
\* invocation is finished with True at once, every earlier call failed with
\* the download error, the call's number is at most max_retries, and the log
\* holds the k-1 warnings and no exhaustion message.
C3_ReturnsOnFirstSuccess ==
    \A f \in Futures :
        LET fut == futures[f]
        IN  \A k \in 1..Len(fut.calls) :
                fut.calls[k] = "return" =>
                    /\ k = Len(fut.calls)
                    /\ k <= max_retries
                    /\ fut.state = "finished"
                    /\ fut.result = "True"
                    /\ fut.exception = NoException
                    /\ \A j \in 1..(k - 1) : fut.calls[j] = "DownloadError"
                    /\ Len(fut.log) = k - 1
                    /\ \A j \in 1..Len(fut.log) : fut.log[j].level = "warning"

\* a success on the second call, after one failure
C3_Witness ==
    \E f \in Futures :
        /\ futures[f].calls = <<"DownloadError", "return">>
        /\ futures[f].result = "True"

\* C4: at most max_workers invocations of download_video run at once.
C4_AtMostMaxWorkersRunning == Cardinality(Running) <= max_workers

\* every worker is busy and a submitted task waits
C4_Witness ==
    /\ max_workers >= 2
    /\ Cardinality(Running) = max_workers
    /\ \E f \in Futures : futures[f].state = "pending"

\* an exception left the metadata fetcher of the running program
FetcherRaised ==
    /\ pc = "raised"
    /\ \/ program = "playlist" /\ pending = NoException
       \/ program = "video" /\ ~Truthy(info)

\* C5: no library error (extraction error, download error, general library
\* error) that extract_info raises leaves get_playlist_info or get_video_info.
C5_FetchersSwallowLibraryErrors == FetcherRaised => exc \notin LibraryErrors

\* the metadata is absent or has no entries key
AbortCase == ~Truthy(playlist_info) \/ ~Has(playlist_info, "entries")

\* C6: while the playlist's metadata is absent or lacks the entries key,
\* download_playlist creates no directory and submits no download_video, and
\* never gets past its checks; when it returns in that case its last log
\* line is the error of the failed check.
C6_AbortBeforeDirectory ==
    program = "playlist" /\ AbortCase =>
        /\ dirs = {}
        /\ futures = <<>>
        /\ videos = <<>>
        /\ pc \in {"start", "check", "returned", "raised"}
        /\ pc = "returned" =>
              /\ log # <<>>
              /\ LastLine(log).level = "error"
        /\ pc = "returned" /\ Truthy(playlist_info) =>
              LastLine(log).msg = "No videos found in the playlist."

\* metadata with a title and no entries key: the flow returned with the
\* error logged and nothing created
C6_Witness ==
    /\ program = "playlist" /\ pc = "returned"
    /\ Truthy(playlist_info) /\ ~Has(playlist_info, "entries")
    /\ dirs = {}
    /\ LastLine(log).msg = "No videos found in the playlist."

\* C7: a call that raises something other than the download error is the
\* invocation's last: the invocation is finished with that exception and no
\* result; the same holds for the KeyError of an entry without id; and when
\* download_videos inspects such a future it stops collecting and leaves by
\* raising that exception, so it never returns normally past one.
C7_UnexpectedExceptionPropagates ==
    /\ \A f \in Futures :
          LET fut == futures[f]
          IN  /\ \A k \in 1..Len(fut.calls) :
                    fut.calls[k] \notin {"return", "DownloadError"} =>
                        /\ k = Len(fut.calls)
                        /\ fut.state = "finished"
                        /\ fut.exception = fut.calls[k]
                        /\ fut.result = "none"
              /\ fut.exception # NoException =>
                    /\ fut.state = "finished"
                    /\ fut.result = "none"
                    /\ \A k \in 1..Len(fut.log) : fut.log[k].level # "error"
              /\ fut.exception # NoException /\ fut.inspected =>
                    /\ pending = fut.exception
                    /\ pc \in {"shutdown", "raised"}
                    /\ pc = "raised" => exc = fut.exception
    /\ DownloadVideosReturned => \A f \in Futures : futures[f].exception = NoException

\* an unexpected error on a task's second call reached download_videos' caller
C7_Witness ==
    /\ DownloadVideosRaised
    /\ exc = "OSError"
    /\ \E f \in Futures :
          /\ futures[f].inspected
          /\ futures[f].calls = <<"DownloadError", "OSError">>
          /\ max_retries >= 2

\* C8: the download error never leaves a download_video invocation, so
\* download_videos never raises it; download_videos raises only an exception
\* some invocation raised; an invocation that returned False used its whole
\* retry budget whatever its siblings did; and when no invocation raised,
\* download_videos returns normally and download_playlist logs the completion.
C8_DownloadErrorsStayInTheirTask ==
    program = "playlist" =>
        /\ \A f \in Futures :
              /\ ~IsInstance(futures[f].exception, "DownloadError")
              /\ futures[f].result = "False" =>
                    /\ Len(futures[f].calls) = max_retries
                    /\ \A k \in 1..max_retries : futures[f].calls[k] = "DownloadError"
        /\ ~IsInstance(pending, "DownloadError")
        /\ ~IsInstance(exc, "DownloadError")
        /\ pending # NoException => \E f \in Futures : futures[f].exception = pending
        /\ pc = "raised" /\ dirs # {} => DownloadVideosRaised
        /\ (pc \in {"returned", "raised"} /\ dirs # {}
             /\ \A f \in Futures : futures[f].exception = NoException)
              => DownloadVideosReturned

\* one target exhausted its retries, a sibling needed a retry and succeeded,
\* and the playlist completed
C8_Witness ==
    /\ DownloadVideosReturned
    /\ max_retries >= 2
    /\ \E f, g \in Futures :
          /\ futures[f].result = "False"
          /\ futures[g].calls = <<"DownloadError", "return">>

\* the log holds download_youtube_content's completion message
CompletionLogged == \E k \in 1..Len(log) : log[k].msg = "download complete!"

\* C9: download_youtube_content fetches no metadata and downloads nothing
\* for an invalid URL, downloads nothing when the metadata is absent, and
\* otherwise ends after exactly one download call on input_url; a call that
\* failed with a download, extraction or OS error is logged and the function
\* returns; the completion is logged only after a call that returned.
C9_GatedSingleDownload ==
    program = "video" =>
        /\ ~validate_url(input_url) => extract_calls = 0 /\ download_calls = <<>>
        /\ ~Truthy(info) => download_calls = <<>>
        /\ Len(download_calls) <= 1
        /\ \A k \in 1..Len(download_calls) :
              /\ download_calls[k].url = input_url
              /\ download_calls[k].outcome \in {"DownloadError", "ExtractorError", "OSError"} =>
                    /\ pc = "returned"
                    /\ LastLine(log).level = "error"
                    /\ ~CompletionLogged
        /\ CompletionLogged => Len(download_calls) = 1 /\ download_calls[1].outcome = "return"
        /\ pc \in {"returned", "raised"} /\ validate_url(input_url) /\ Truthy(info)
              => Len(download_calls) = 1

\* download_videos has exited only with every submitted task finished, and
\* it inspects a result only after the whole comprehension has run
ExitsAfterEveryTask ==
    program = "playlist" =>
        /\ pc \in {"returned", "raised"} => Unfinished = {}
        /\ (\E f \in Futures : futures[f].inspected) \/ pc \in {"collect", "shutdown"} =>
              /\ next = Len(videos) + 1
              /\ \A i \in 1..Len(videos) : Truthy(videos[i]) => FuturesOf(i) # {}
        /\ pending # NoException => pc \in {"shutdown", "raised"}
        /\ DownloadVideosRaised => \A f \in Futures : futures[f].state = "finished"

\* C10: download_videos never exits, normally or by raising, while a
\* submitted task is pending or running; every truthy entry is submitted
\* before the first result is inspected; and once entered, with the threads
\* scheduled and every download call ending, download_videos exits.
C10_WaitsForEveryTask ==
    /\ []ExitsAfterEveryTask
    /\ (InDownloadVideos ~> ~InDownloadVideos)

\* a task's exception has been re-raised inside the with block while a
\* sibling task has not started yet: the exit waits for it
C10_Witness ==
    /\ program = "playlist" /\ pc = "shutdown"
    /\ pending # NoException
    /\ \E f \in Futures : futures[f].state = "pending"

====
